---- MODULE Spec2Model ----
(***************************************************************************)
(* A model of NluHermesMqtt (rhasspyfuzzywuzzy_hermes/__init__.py): the    *)
(* Hermes MQTT server that trains a fuzzywuzzy example index from a        *)
(* grammar and answers NLU queries by fuzzy matching against it.           *)
(*                                                                         *)
(* A text is the sequence of its whitespace-separated words: recognize     *)
(* joins input_text.split() with single spaces, train joins the words of   *)
(* an example with single spaces, so two texts are the same Python string  *)
(* exactly when their word sequences are equal.                            *)
(***************************************************************************)
EXTENDS Integers, Sequences, FiniteSets, TLC

\* ------------------------------------------------------------------------
\* Bounds and the small sets inputs are drawn from
\* ------------------------------------------------------------------------

\* Longest query input, in words.
MaxInputLen == 1

InputWords == {"on", "ON", "2"}

Inputs == UNION {[1..n -> InputWords] : n \in 0..MaxInputLen}

\* ------------------------------------------------------------------------
\* Text helpers
\* ------------------------------------------------------------------------

Max(a, b) == IF a >= b THEN a ELSE b

Min(a, b) == IF a <= b THEN a ELSE b

RECURSIVE TextLen(_)
\* len(" ".join(words)): the characters of the words and the spaces between.
TextLen(words) ==
    IF words = <<>> THEN 0
    ELSE IF Len(words) = 1 THEN Len(words[1])
    ELSE Len(words[1]) + 1 + TextLen(Tail(words))

\* num2words on one token: a digit string becomes its words.
NumberWords(w) == IF w = "2" THEN <<"two">> ELSE <<w>>

RECURSIVE replace_numbers(_)
\* rhasspynlu.numbers.replace_numbers: every digit word is replaced by its
\* number words ("2" -> "two"), other words are kept.
replace_numbers(words) ==
    IF words = <<>> THEN <<>>
    ELSE NumberWords(Head(words)) \o replace_numbers(Tail(words))

\* str.lower() on one word.
Lower(w) == IF w = "ON" THEN "on" ELSE w

RECURSIVE full_process(_)
\* fuzzywuzzy.utils.full_process, the default processor of extractOne:
\* lower-cases the string (the words of the model hold no punctuation).
full_process(text) ==
    IF text = <<>> THEN <<>>
    ELSE <<Lower(Head(text))>> \o full_process(Tail(text))

\* ------------------------------------------------------------------------
\* fuzzywuzzy.fuzz.WRatio, the default scorer of extractOne, at word
\* granularity: a processed text is compared word by word.
\* ------------------------------------------------------------------------

\* utils.intr: int(round(num/den)), Python 3 rounding (half to even).
intr(num, den) ==
    LET q == num \div den
        r == num % den
    IN  IF 2 * r < den THEN q
        ELSE IF 2 * r > den THEN q + 1
        ELSE IF q % 2 = 0 THEN q ELSE q + 1

RECURSIVE LCS(_, _)
\* Number of matching words (longest common subsequence).
LCS(a, b) ==
    IF a = <<>> \/ b = <<>> THEN 0
    ELSE IF Head(a) = Head(b) THEN 1 + LCS(Tail(a), Tail(b))
    ELSE Max(LCS(Tail(a), b), LCS(a, Tail(b)))

\* fuzz.ratio: 0 when either string is empty, else 100 * 2M / T, rounded.
ratio(a, b) ==
    IF a = <<>> \/ b = <<>> THEN 0
    ELSE intr(200 * LCS(a, b), Len(a) + Len(b))

\* Python's string order on the (lower-cased) words of the model.
WordRank(w) ==
    CASE w = "2" -> 0
      [] w = "ON" -> 1
      [] w = "off" -> 2
      [] w = "on" -> 3
      [] w = "two" -> 4
      [] OTHER -> 5

RECURSIVE Insert(_, _)
Insert(w, sorted) ==
    IF sorted = <<>> THEN <<w>>
    ELSE IF WordRank(w) <= WordRank(Head(sorted)) THEN <<w>> \o sorted
    ELSE <<Head(sorted)>> \o Insert(w, Tail(sorted))

RECURSIVE SortWords(_)
\* sorted(tokens)
SortWords(ws) == IF ws = <<>> THEN <<>> ELSE Insert(Head(ws), SortWords(Tail(ws)))

RECURSIVE SortSet(_)
\* sorted(set of tokens)
SortSet(S) ==
    IF S = {} THEN <<>>
    ELSE LET w == CHOOSE v \in S : \A u \in S : WordRank(v) <= WordRank(u)
         IN  <<w>> \o SortSet(S \ {w})

WordSet(ws) == {ws[i] : i \in 1..Len(ws)}

\* fuzz.partial_ratio: the best ratio of the shorter string against a window
\* of its length in the longer one.
partial_ratio(a, b) ==
    LET shorter == IF Len(a) <= Len(b) THEN a ELSE b
        longer == IF Len(a) <= Len(b) THEN b ELSE a
        n == Len(shorter)
    IN  IF n = 0 THEN 0
        ELSE LET scores == {ratio(shorter, SubSeq(longer, i, i + n - 1)) :
                                i \in 1..(Len(longer) - n + 1)}
             IN  CHOOSE s \in scores : \A t \in scores : s >= t

token_sort_ratio(a, b) == ratio(SortWords(a), SortWords(b))

partial_token_sort_ratio(a, b) == partial_ratio(SortWords(a), SortWords(b))

\* fuzz._token_set: the best of the three pairings of the sorted intersection
\* and the two sorted remainders.
token_set(a, b, partial) ==
    LET sect == WordSet(a) \cap WordSet(b)
        sorted_sect == SortSet(sect)
        combined_1to2 == sorted_sect \o SortSet(WordSet(a) \ sect)
        combined_2to1 == sorted_sect \o SortSet(WordSet(b) \ sect)
        r(x, y) == IF partial THEN partial_ratio(x, y) ELSE ratio(x, y)
    IN  IF partial /\ sect # {} THEN 100
        ELSE Max(r(sorted_sect, combined_1to2),
                 Max(r(sorted_sect, combined_2to1),
                     r(combined_1to2, combined_2to1)))

\* fuzz.WRatio on two processed strings.
WRatio(p1, p2) ==
    IF p1 = <<>> \/ p2 = <<>> THEN 0
    ELSE LET base == ratio(p1, p2)
             lmax == Max(TextLen(p1), TextLen(p2))
             lmin == Min(TextLen(p1), TextLen(p2))
             try_partial == ~(2 * lmax < 3 * lmin)
             partial_scale == IF lmax > 8 * lmin THEN 60 ELSE 90
         IN  IF try_partial
             THEN intr(Max(base * 10000,
                        Max(partial_ratio(p1, p2) * 100 * partial_scale,
                         Max(partial_token_sort_ratio(p1, p2) * 95 * partial_scale,
                             token_set(p1, p2, TRUE) * 95 * partial_scale))),
                       10000)
             ELSE intr(Max(base * 100,
                        Max(token_sort_ratio(p1, p2) * 95,
                            token_set(p1, p2, FALSE) * 95)),
                       100)

\* ------------------------------------------------------------------------
\* Python values
\* ------------------------------------------------------------------------

\* An Optional value is a sequence of at most one element: <<>> is None.
Some(v) == <<v>>

IsNone(o) == o = <<>>

Val(o) == o[1]

\* ------------------------------------------------------------------------
\* Training input.  A grammar is what rhasspynlu.parse_ini / split_rules
\* return for message.sentences: the sentences in order, each with its
\* intent and its words, a word optionally tagged with an entity.
\* ------------------------------------------------------------------------

W(w) == [word |-> w, entity |-> ""]

E(w, e) == [word |-> w, entity |-> e]

Sentence(i, toks) == [intent |-> i, toks |-> toks]

\* The grammars train requests carry.  1: two intents whose texts differ in
\* case only.  2: grammar 1 with the intent names swapped.  3: two intents
\* with the same text, the second with a second sentence holding an entity
\* and a third rendering the first text again, tagged.  0: no sentence.
GrammarIds == 0..3

Grammar(k) ==
    CASE k = 1 -> <<Sentence("A", <<W("on")>>), Sentence("B", <<W("ON")>>)>>
      [] k = 2 -> <<Sentence("B", <<W("on")>>), Sentence("A", <<W("ON")>>)>>
      [] k = 3 -> <<Sentence("A", <<W("on")>>), Sentence("B", <<W("on")>>),
                    Sentence("B", <<W("off"), E("two", "n")>>),
                    Sentence("B", <<E("on", "n")>>)>>
      [] OTHER -> <<>>

\* ------------------------------------------------------------------------
\* rhasspynlu.intents_to_graph: node 0 is the start node; every sentence adds
\* a node reached from the start over its __label__ edge, then one node per
\* word; the last node of every sentence leads to the one final node.  Node
\* ids count up from 0 in creation order.
\* ------------------------------------------------------------------------

RECURSIVE FirstNode(_, _)
\* The id of the first node of sentence k.
FirstNode(sentences, k) ==
    IF k = 1 THEN 1
    ELSE FirstNode(sentences, k - 1) + 1 + Len(sentences[k - 1].toks)

FinalNode(sentences) == FirstNode(sentences, Len(sentences) + 1)

LastNode(sentences, k) == FirstNode(sentences, k) + Len(sentences[k].toks)

NodeData(label, word, entity) == [label |-> label, word |-> word, entity |-> entity]

RECURSIVE WordNodes(_)
\* The nodes of the words of a sentence.
WordNodes(toks) ==
    IF toks = <<>> THEN <<>>
    ELSE <<NodeData("", Head(toks).word, Head(toks).entity)>> \o WordNodes(Tail(toks))

RECURSIVE SentenceNodes(_)
\* The nodes of the sentences: for each, the node its __label__ edge leads
\* to, then its word nodes.
SentenceNodes(sentences) ==
    IF sentences = <<>> THEN <<>>
    ELSE <<NodeData(Head(sentences).intent, "", "")>>
         \o WordNodes(Head(sentences).toks)
         \o SentenceNodes(Tail(sentences))

\* The graph: node n has its data at index n + 1 of node.
intents_to_graph(sentences) ==
    LET final == FinalNode(sentences)
        ks == 1..Len(sentences)
    IN  [nodes |-> 0..final,
         final |-> final,
         edges |-> {<<0, FirstNode(sentences, k)>> : k \in ks}
                   \cup {<<LastNode(sentences, k), final>> : k \in ks}
                   \cup UNION {{<<n, n + 1>> :
                                   n \in FirstNode(sentences, k)..(LastNode(sentences, k) - 1)} :
                               k \in ks},
         node |-> <<NodeData("", "", "")>> \o SentenceNodes(sentences)
                  \o <<NodeData("", "", "")>>]

\* bool(graph): a networkx graph is falsy when it has no node.
GraphTruthy(og) == ~IsNone(og) /\ Val(og).nodes # {}

\* ------------------------------------------------------------------------
\* .utils.generate_examples: a depth-first walk from the start node yielding
\* one (intent_name, words, path) per start-to-final path, successors taken
\* in creation order.
\* ------------------------------------------------------------------------

RECURSIVE SeqOfSet(_)
\* The node ids of a set in ascending order.
SeqOfSet(S) ==
    IF S = {} THEN <<>>
    ELSE LET m == CHOOSE v \in S : \A u \in S : v <= u
         IN  <<m>> \o SeqOfSet(S \ {m})

RECURSIVE PrependAll(_, _)
PrependAll(n, paths) ==
    IF paths = <<>> THEN <<>>
    ELSE <<(<<n>> \o Head(paths))>> \o PrependAll(n, Tail(paths))

RECURSIVE PathsFrom(_, _)
RECURSIVE PathsVia(_, _, _)
\* The paths from n to the final node.
PathsFrom(graph, n) ==
    IF n = graph.final THEN << <<n>> >>
    ELSE PathsVia(graph, n, SeqOfSet({m \in graph.nodes : <<n, m>> \in graph.edges}))

\* The paths from n through its successors succ, in order.
PathsVia(graph, n, succ) ==
    IF succ = <<>> THEN <<>>
    ELSE PrependAll(n, PathsFrom(graph, Head(succ))) \o PathsVia(graph, n, Tail(succ))

RECURSIVE PathWords(_, _)
\* The non-empty words of the nodes of a path, in order.
PathWords(graph, path) ==
    IF path = <<>> THEN <<>>
    ELSE (IF graph.node[Head(path) + 1].word = "" THEN <<>>
          ELSE <<graph.node[Head(path) + 1].word>>)
         \o PathWords(graph, Tail(path))

RECURSIVE PathLabel(_, _)
\* The intent name of the first __label__ on a path ("" when there is none).
PathLabel(graph, path) ==
    IF path = <<>> THEN ""
    ELSE IF graph.node[Head(path) + 1].label # "" THEN graph.node[Head(path) + 1].label
    ELSE PathLabel(graph, Tail(path))

RECURSIVE ExamplesOfPaths(_, _)
ExamplesOfPaths(graph, paths) ==
    IF paths = <<>> THEN <<>>
    ELSE <<[intent_name |-> PathLabel(graph, Head(paths)),
            words |-> PathWords(graph, Head(paths)),
            path |-> Head(paths)]>>
         \o ExamplesOfPaths(graph, Tail(paths))

generate_examples(graph) == ExamplesOfPaths(graph, PathsFrom(graph, 0))

\* ------------------------------------------------------------------------
\* Files.  A file is missing, holds text json.load rejects, or holds the
\* JSON of a value; json.dump / json.load (and graph_to_json / json_to_graph)
\* give back the value dumped: the index is a dict of dicts of int lists
\* with string keys, and Python dicts and JSON objects both keep their order.
\* ------------------------------------------------------------------------

Missing == [state |-> "missing", data |-> <<>>]

Corrupt == [state |-> "corrupt", data |-> <<>>]

JsonFile(v) == [state |-> "json", data |-> <<v>>]

\* Path.is_file()
is_file(f) == f.state # "missing"

\* ------------------------------------------------------------------------
\* The example index: a Python dict intent_name -> (text -> path), kept as
\* the sequence of its items in insertion order.
\* ------------------------------------------------------------------------

RECURSIVE SetItemKeepFirst(_, _, _)
\* d.setdefault(text, path): an existing key keeps its value.
SetItemKeepFirst(items, text, path) ==
    IF items = <<>> THEN <<[text |-> text, path |-> path]>>
    ELSE IF Head(items).text = text THEN items
    ELSE <<Head(items)>> \o SetItemKeepFirst(Tail(items), text, path)

RECURSIVE SetItem(_, _, _)
\* d[text] = path on a dict of [text, path] items: an existing key keeps its
\* place and takes the new value, a new key is appended.
SetItem(items, text, path) ==
    IF items = <<>> THEN <<[text |-> text, path |-> path]>>
    ELSE IF Head(items).text = text THEN <<[text |-> text, path |-> path]>> \o Tail(items)
    ELSE <<Head(items)>> \o SetItem(Tail(items), text, path)

RECURSIVE SetExample(_, _, _, _)
\* examples[intent_name][sentence] = path on the defaultdict(dict).
SetExample(examples, intent_name, text, path) ==
    IF examples = <<>>
    THEN <<[intent |-> intent_name, paths |-> SetItem(<<>>, text, path)]>>
    ELSE IF Head(examples).intent = intent_name
    THEN <<[intent |-> intent_name, paths |-> SetItem(Head(examples).paths, text, path)]>>
         \o Tail(examples)
    ELSE <<Head(examples)>> \o SetExample(Tail(examples), intent_name, text, path)

RECURSIVE FoldExamples(_, _)
\* The loop of train over generate_examples(intent_graph).
FoldExamples(examples, tuples) ==
    IF tuples = <<>> THEN examples
    ELSE FoldExamples(SetExample(examples, Head(tuples).intent_name,
                                 Head(tuples).words, Head(tuples).path),
                      Tail(tuples))

\* bool(examples): None and the empty dict are falsy.
ExamplesTruthy(oe) == ~IsNone(oe) /\ Val(oe) # <<>>

\* ------------------------------------------------------------------------
\* NluHermesMqtt.train
\* ------------------------------------------------------------------------

\* message.sentences that rhasspynlu.parse_ini rejects.
BadGrammar == -1

\* Where the environment makes a step of train raise: nowhere, in
\* open(intent_graph_path, "w"), in json.dump after the graph file was
\* opened (and truncated), in generate_examples, in open(examples_path, "w"),
\* or in json.dump of the examples.
Failures == {"none", "graph_open", "graph_dump", "generate", "examples_open", "examples_dump"}

\* The sentences of the train requests that the environment interrupts: the
\* empty grammar and one non-empty grammar.
Interrupted == {k \in GrammarIds : Grammar(k) = <<>> \/ Grammar(k)[1].intent = "B"}

\* The with open(intent_graph_path, "w") block.
WriteGraphFile(graph, path_set, file, fail) ==
    IF ~path_set THEN [raised |-> "", file |-> file]
    ELSE IF fail = "graph_open" THEN [raised |-> "OSError", file |-> file]
    ELSE IF fail = "graph_dump" THEN [raised |-> "OSError", file |-> Corrupt]
    ELSE [raised |-> "", file |-> JsonFile(graph)]

\* The with open(examples_path, "w") block.
WriteExamplesFile(index, path_set, file, fail) ==
    IF ~path_set THEN [raised |-> "", file |-> file]
    ELSE IF fail = "examples_open" THEN [raised |-> "OSError", file |-> file]
    ELSE IF fail = "examples_dump" THEN [raised |-> "OSError", file |-> Corrupt]
    ELSE [raised |-> "", file |-> JsonFile(index)]

TrainResult(raised, graph, index, gfile, efile) ==
    [raised |-> raised, intent_graph |-> graph, examples |-> index,
     graph_file |-> gfile, examples_file |-> efile]

\* The loop over generate_examples(intent_graph).
TrainExamples(graph) == FoldExamples(<<>>, generate_examples(graph))

\* The end of train, the examples written (ew): the first step that raised
\* ends the call, else (intent_graph, examples) is returned.
TrainReturn(graph, index, gw, ew, efile, fail) ==
    IF gw.raised # "" THEN TrainResult(gw.raised, <<>>, <<>>, gw.file, efile)
    ELSE IF fail = "generate" THEN TrainResult("Exception", <<>>, <<>>, gw.file, efile)
    ELSE IF ew.raised # "" THEN TrainResult(ew.raised, <<>>, <<>>, gw.file, ew.file)
    ELSE TrainResult("", Some(graph), Some(index), gw.file, ew.file)

\* train from the examples loop on, the graph file written (gw).
TrainIndex(graph, index, gw, ep, efile, fail) ==
    TrainReturn(graph, index, gw, WriteExamplesFile(index, ep, efile, fail), efile, fail)

\* train from the graph on.
TrainGraph(graph, gp, ep, gfile, efile, fail) ==
    TrainIndex(graph, TrainExamples(graph), WriteGraphFile(graph, gp, gfile, fail),
               ep, efile, fail)

\* train(sentences, intent_graph_path, examples_path): raised = "" is a
\* normal return of (intent_graph, examples).
train(sentences, gp, ep, gfile, efile, fail) ==
    IF sentences = BadGrammar
    THEN TrainResult("ParseError", <<>>, <<>>, gfile, efile)
    ELSE TrainGraph(intents_to_graph(Grammar(sentences)), gp, ep, gfile, efile, fail)

\* ------------------------------------------------------------------------
\* rhasspynlu.fsticuffs.path_to_recognition
\* ------------------------------------------------------------------------

\* Whether walking the path pairwise finds every node and edge in the graph
\* (node_attrs[next_node], graph[last_node][next_node]).
PathInGraph(path, graph) ==
    \A i \in 1..(Len(path) - 1) :
        /\ path[i + 1] \in graph.nodes
        /\ <<path[i], path[i + 1]>> \in graph.edges

\* The entity of a node whose word starts at raw_start.
Entity(data, raw_start) ==
    [entity |-> data.entity, value |-> data.word, raw_value |-> data.word,
     raw_start |-> raw_start, raw_end |-> raw_start + Len(data.word)]

\* The entity of node path[i], if it is tagged, given the words before it.
EntityAt(data, before) ==
    IF data.entity = "" THEN <<>>
    ELSE <<Entity(data, IF before = <<>> THEN 0 ELSE TextLen(before) + 1)>>

RECURSIVE EntitiesFrom(_, _, _)
\* The entities of the nodes path[i..]: one per node tagged with an entity,
\* its span the characters of the node's word in the text the path renders.
EntitiesFrom(path, graph, i) ==
    IF i > Len(path) THEN <<>>
    ELSE EntityAt(graph.node[path[i] + 1], PathWords(graph, SubSeq(path, 1, i - 1)))
         \o EntitiesFrom(path, graph, i + 1)

\* The recognition a path decodes to: its raw_text the text of the path's
\* words and its confidence 1.0.
Recognition(name, entities, words) ==
    [intent |-> [name |-> name, confidence |-> [num |-> 1, den |-> 1]],
     entities |-> entities, raw_text |-> words, raw_tokens |-> words]

\* An empty path gives (False, None); a path that leaves the graph raises
\* KeyError.
path_to_recognition(path, graph) ==
    IF path = <<>> THEN [raised |-> "", recognition |-> <<>>]
    ELSE IF ~PathInGraph(path, graph) THEN [raised |-> "KeyError", recognition |-> <<>>]
    ELSE [raised |-> "",
          recognition |-> Some(Recognition(PathLabel(graph, path),
                                           EntitiesFrom(path, graph, 1),
                                           PathWords(graph, path)))]

\* ------------------------------------------------------------------------
\* NluHermesMqtt.recognize
\* ------------------------------------------------------------------------

\* intent_filter testing for None only: an empty list passes no intent.
intent_filterStrict(intentFilter, intent_name) ==
    IF ~IsNone(intentFilter)
    THEN intent_name \in Val(intentFilter)
    ELSE TRUE

\* handle_query.intent_filter: intentFilter is None (<<>>) or a list (<<S>>).
intent_filter(intentFilter, intent_name) ==
    IF ~IsNone(intentFilter) /\ Val(intentFilter) # {}
    THEN intent_name \in Val(intentFilter)
    ELSE TRUE

RECURSIVE AddItems(_, _)
AddItems(choices, items) ==
    IF items = <<>> THEN choices
    ELSE AddItems(SetItem(choices, Head(items).text, Head(items).path), Tail(items))

RECURSIVE Choices(_, _, _)
\* The dict comprehension of recognize: text -> path over the intents that
\* pass the filter, in index order.
Choices(choices, index, intentFilter) ==
    IF index = <<>> THEN choices
    ELSE Choices(IF intent_filter(intentFilter, Head(index).intent)
                 THEN AddItems(choices, Head(index).paths)
                 ELSE choices,
                 Tail(index), intentFilter)

\* max keeps the best so far unless the score is strictly greater.
Better(best, text, score) ==
    IF score > best.score THEN [text |-> text, score |-> score] ELSE best

RECURSIVE BestOf(_, _, _)
\* max(best_list, key=score): the first (choice, score) of maximum score.
BestOf(processed_query, choices, best) ==
    IF choices = <<>> THEN best
    ELSE BestOf(processed_query, Tail(choices),
                Better(best, Head(choices).text,
                       WRatio(processed_query, full_process(Head(choices).text))))

\* fuzzywuzzy.process.extractOne(query, choices.keys()): None when there is
\* no choice, else the first (choice, score) of maximum score, scored by
\* WRatio on the processed query and the processed choice.
extractOne(query, choices) ==
    IF choices = <<>> THEN <<>>
    ELSE Some(BestOf(full_process(query), choices, [text |-> <<>>, score |-> -1]))

\* choices[best_text]
Lookup(choices, text) ==
    choices[CHOOSE i \in 1..Len(choices) : choices[i].text = text].path

RecognizeResult(raised, recognitions) == [raised |-> raised, recognitions |-> recognitions]

\* recognize from assert recognition on: confidence, raw_text and raw_tokens
\* are set on the decoded recognition.
RecognizeReturn(text, best, decoded) ==
    IF decoded.raised # "" THEN RecognizeResult(decoded.raised, <<>>)
    ELSE IF IsNone(decoded.recognition) THEN RecognizeResult("AssertionError", <<>>)
    ELSE RecognizeResult("",
           <<[Val(decoded.recognition) EXCEPT
                !.intent.confidence = [num |-> best.score, den |-> 100],
                !.raw_text = text,
                !.raw_tokens = text]>>)

\* recognize from the unpacking of extractOne's result on: None cannot be
\* unpacked into best_text, best_score.
RecognizeBest(text, choices, best, intent_graph) ==
    IF IsNone(best) THEN RecognizeResult("TypeError", <<>>)
    ELSE RecognizeReturn(text, Val(best),
                         path_to_recognition(Lookup(choices, Val(best).text), intent_graph))

\* recognize from extractOne on.
RecognizeChoices(text, choices, intent_graph) ==
    RecognizeBest(text, choices, extractOne(text, choices), intent_graph)

\* recognize(input_text, intent_graph, examples, intent_filter): the list of
\* recognitions returned, or the exception raised.
recognize(input_text, intent_graph, index, intentFilter) ==
    RecognizeChoices(replace_numbers(input_text), Choices(<<>>, index, intentFilter),
                     intent_graph)

\* ------------------------------------------------------------------------
\* Hermes messages
\* ------------------------------------------------------------------------

RECURSIVE Slots(_)
\* The Slot of every entity, its range the entity's raw_start and raw_end.
Slots(entities) ==
    IF entities = <<>> THEN <<>>
    ELSE <<[entity |-> Head(entities).entity,
            slotName |-> Head(entities).entity,
            value |-> Head(entities).value,
            raw_value |-> Head(entities).raw_value,
            start |-> Head(entities).raw_start,
            end |-> Head(entities).raw_end]>>
         \o Slots(Tail(entities))

NluIntent(query, recognition) ==
    [type |-> "NluIntent", input |-> query.input, id |-> query.id,
     siteId |-> query.siteId, sessionId |-> query.sessionId,
     intentName |-> recognition.intent.name,
     confidenceScore |-> recognition.intent.confidence,
     slots |-> Slots(recognition.entities)]

NluIntentNotRecognized(query) ==
    [type |-> "NluIntentNotRecognized", input |-> query.input, id |-> query.id,
     siteId |-> query.siteId, sessionId |-> query.sessionId]

NluError(siteId, sessionId, error, context) ==
    [type |-> "NluError", siteId |-> siteId, sessionId |-> sessionId,
     error |-> error, context |-> context]

NluTrainSuccess(id) == [type |-> "NluTrainSuccess", id |-> id]

\* ------------------------------------------------------------------------
\* NluHermesMqtt.handle_query
\* ------------------------------------------------------------------------

\* The lazy load of the intent graph without the test of self.intent_graph:
\* the file is read for every query.
LoadGraphAlways(graph, path_set, file) ==
    IF path_set /\ is_file(file)
    THEN IF file.state = "json"
         THEN [raised |-> "", value |-> file.data]
         ELSE [raised |-> "JSONDecodeError", value |-> graph]
    ELSE [raised |-> "", value |-> graph]

\* The lazy load of the intent graph.
LoadGraph(graph, path_set, file) ==
    IF ~GraphTruthy(graph) /\ path_set /\ is_file(file)
    THEN IF file.state = "json"
         THEN [raised |-> "", value |-> file.data]
         ELSE [raised |-> "JSONDecodeError", value |-> graph]
    ELSE [raised |-> "", value |-> graph]

\* The lazy load of the examples without the is_file() test: open raises on a
\* missing file.
LoadExamplesUnchecked(index, path_set, file) ==
    IF ~ExamplesTruthy(index) /\ path_set
    THEN IF file.state = "json"
         THEN [raised |-> "", value |-> file.data]
         ELSE [raised |-> IF file.state = "missing" THEN "FileNotFoundError"
                          ELSE "JSONDecodeError",
               value |-> index]
    ELSE [raised |-> "", value |-> index]

\* The lazy load of the examples with a default: a missing file leaves an
\* empty dict in self.examples.
LoadExamplesOrEmpty(index, path_set, file) ==
    IF ~ExamplesTruthy(index) /\ path_set
    THEN IF file.state = "json"
         THEN [raised |-> "", value |-> file.data]
         ELSE IF file.state = "missing"
         THEN [raised |-> "", value |-> Some(<<>>)]
         ELSE [raised |-> "JSONDecodeError", value |-> index]
    ELSE [raised |-> "", value |-> index]

\* The lazy load of the examples.
LoadExamples(index, path_set, file) ==
    IF ~ExamplesTruthy(index) /\ path_set /\ is_file(file)
    THEN IF file.state = "json"
         THEN [raised |-> "", value |-> file.data]
         ELSE [raised |-> "JSONDecodeError", value |-> index]
    ELSE [raised |-> "", value |-> index]

QueryResult(raised, graph, index, messages, called) ==
    [raised |-> raised, intent_graph |-> graph, examples |-> index,
     published |-> messages, called_recognize |-> called]

\* if self.intent_graph and self.examples
HaveBoth(graph, index) == GraphTruthy(graph) /\ ExamplesTruthy(index)

\* handle_query from if recognitions on, recognize called.
PublishRecognitions(query, graph, index, rec) ==
    IF rec.raised # "" THEN QueryResult(rec.raised, graph, index, <<>>, TRUE)
    ELSE IF rec.recognitions # <<>>
    THEN QueryResult("", graph, index, <<NluIntent(query, rec.recognitions[1])>>, TRUE)
    ELSE QueryResult("", graph, index, <<NluIntentNotRecognized(query)>>, TRUE)

\* handle_query given what the two lazy loads did (lg, le).
HandleLoaded(query, graph, index, lg, le) ==
    IF lg.raised # "" THEN QueryResult(lg.raised, graph, index, <<>>, FALSE)
    ELSE IF le.raised # "" THEN QueryResult(le.raised, lg.value, index, <<>>, FALSE)
    ELSE IF HaveBoth(lg.value, le.value)
    THEN PublishRecognitions(query, lg.value, le.value,
                             recognize(query.input, Val(lg.value), Val(le.value),
                                       query.intentFilter))
    ELSE QueryResult("", lg.value, le.value, <<NluIntentNotRecognized(query)>>, FALSE)

\* handle_query(query): the attributes it leaves, what it published, and the
\* exception it raised, if any.
handle_query(query, graph, index, gp, ep, gfile, efile) ==
    HandleLoaded(query, graph, index, LoadGraph(graph, gp, gfile),
                 LoadExamples(index, ep, efile))

\* ------------------------------------------------------------------------
\* NluHermesMqtt.handle_train
\* ------------------------------------------------------------------------

\* handle_train with the graph attribute assigned on its own, whatever train
\* did, and the examples attribute only when train returned.
HandleTrainedInPlace(message, graph, index, trained) ==
    [intent_graph |-> trained.intent_graph,
     examples |-> IF trained.raised = "" THEN trained.examples ELSE index,
     result |-> IF trained.raised = "" THEN NluTrainSuccess(message.id)
                ELSE NluError("default", "", trained.raised, message.id),
     raised |-> trained.raised,
     graph_file |-> trained.graph_file, examples_file |-> trained.examples_file]

\* handle_train reporting a failure without the request's id.
HandleTrainedNoContext(message, graph, index, trained) ==
    IF trained.raised = ""
    THEN [intent_graph |-> trained.intent_graph, examples |-> trained.examples,
          result |-> NluTrainSuccess(message.id), raised |-> "",
          graph_file |-> trained.graph_file, examples_file |-> trained.examples_file]
    ELSE [intent_graph |-> graph, examples |-> index,
          result |-> NluError("default", "", trained.raised, ""),
          raised |-> trained.raised,
          graph_file |-> trained.graph_file, examples_file |-> trained.examples_file]

\* handle_train given what train did: the pair of attributes is assigned
\* when train returned, and the message returned; siteId is the default
\* "default".
HandleTrained(message, graph, index, trained) ==
    IF trained.raised = ""
    THEN [intent_graph |-> trained.intent_graph, examples |-> trained.examples,
          result |-> NluTrainSuccess(message.id), raised |-> "",
          graph_file |-> trained.graph_file, examples_file |-> trained.examples_file]
    ELSE [intent_graph |-> graph, examples |-> index,
          result |-> NluError("default", "", trained.raised, message.id),
          raised |-> trained.raised,
          graph_file |-> trained.graph_file, examples_file |-> trained.examples_file]

\* handle_train(message)
handle_train(message, graph, index, gp, ep, gfile, efile, fail) ==
    HandleTrained(message, graph, index,
                  train(message.sentences, gp, ep, gfile, efile, fail))

\* ------------------------------------------------------------------------
\* The server
\* ------------------------------------------------------------------------

VARIABLES
    siteIds,            \* self.siteIds
    intent_graph_path,  \* whether self.intent_graph_path is set
    examples_path,      \* whether self.examples_path is set
    intent_graph,       \* self.intent_graph
    examples,           \* self.examples
    graph_file,         \* the file at intent_graph_path
    examples_file,      \* the file at examples_path
    published,          \* the messages the last on_message call published
    last,               \* the last on_message call: its message and what it did
    load_failed         \* a query of this process ended without reaching recognize

vars == <<siteIds, intent_graph_path, examples_path, intent_graph, examples,
          graph_file, examples_file, published, last, load_failed>>

config == <<siteIds, intent_graph_path, examples_path>>

\* The senders of queries: id, siteId (absent in the third payload) and
\* sessionId of the payload.
Senders ==
    {[id |-> "q1", siteId |-> <<"default">>, sessionId |-> "s1"],
     [id |-> "q2", siteId |-> <<"other">>, sessionId |-> "s2"],
     [id |-> "q3", siteId |-> <<>>, sessionId |-> "s1"]}

Sender(id) == CHOOSE s \in Senders : s.id = id

\* The sender of train requests.
Trainer == [id |-> "t1", siteId |-> <<>>, sessionId |-> ""]

\* intentFilter: absent, the empty list, a list of one trained intent, a list
\* of one intent never trained.
Filters == {<<>>, <<{}>>, <<{"A"}>>, <<{"C"}>>}

Message(topic, payload, input, intentFilter, sender, sentences, topicSite) ==
    [topic |-> topic, payload |-> payload, input |-> input,
     intentFilter |-> intentFilter, id |-> sender.id, siteId |-> sender.siteId,
     sessionId |-> sender.sessionId, sentences |-> sentences, topicSite |-> topicSite]

\* The inputs sent with every filter: the empty input and one trained word.
FilteredInputs == {<<>>, <<"on">>}

\* Messages on hermes/nlu/query: well-formed payloads (every input with no
\* filter and the filtered inputs with every filter from the first sender,
\* "on" from every sender), a JSON payload with a field NluQuery does not
\* take, and a payload that is not JSON.
QueryMessages ==
    {Message("query", "ok", i, <<>>, Sender("q1"), BadGrammar, "") : i \in Inputs}
    \cup {Message("query", "ok", i, f, Sender("q1"), BadGrammar, "") :
            i \in FilteredInputs, f \in Filters}
    \cup {Message("query", "ok", <<"on">>, <<>>, s, BadGrammar, "") : s \in Senders}
    \cup {Message("query", p, <<>>, <<>>, Sender("q1"), BadGrammar, "") :
            p \in {"bad_fields", "bad_json"}}

\* Messages on rhasspy/nlu/<siteId>/train: every grammar for the site
\* "default", one for the site "other", a JSON payload with a field NluTrain
\* does not take, and a payload that is not JSON.
TrainMessages ==
    {Message("train", "ok", <<>>, <<>>, Trainer, g, "default") :
        g \in GrammarIds \cup {BadGrammar}}
    \cup {Message("train", "ok", <<>>, <<>>, Trainer, 1, "other")}
    \cup {Message("train", p, <<>>, <<>>, Trainer, BadGrammar, "default") :
            p \in {"bad_fields", "bad_json"}}

\* json_payload.get("siteId", "default")
PayloadSite(msg) == IF IsNone(msg.siteId) THEN "default" ELSE Val(msg.siteId)

\* NluQuery(**json_payload): siteId defaults to "default".
NluQuery(msg) ==
    [input |-> msg.input, intentFilter |-> msg.intentFilter, id |-> msg.id,
     siteId |-> PayloadSite(msg), sessionId |-> msg.sessionId]

\* A site check that accepts every payload.
_check_siteIdOpen(msg) == TRUE

\* _check_siteId(json_payload)
_check_siteId(msg) == IF siteIds # {} THEN PayloadSite(msg) \in siteIds ELSE TRUE

\* One on_message call: the message, whether it passed the site check, the
\* exception raised in it (escaped: past the inner handler, to the outer
\* except of on_message), whether recognize was called, and the pair
\* (self.intent_graph, self.examples) as it was before the call.
Call(kind, msg, site_ok, raised, escaped, called, before) ==
    [kind |-> kind, msg |-> msg, site_ok |-> site_ok, raised |-> raised,
     escaped |-> escaped, called_recognize |-> called, before |-> before]

\* The grammars whose files another process installs: the non-empty ones.
InstalledGrammars == {k \in GrammarIds : Grammar(k) # <<>>}

NoMessage == Message("", "", <<>>, <<>>, Trainer, BadGrammar, "")

\* The configurations of the constructor's callers: one site with both paths
\* set, every site with no path.
Configs == {<<{"default"}, TRUE, TRUE>>, <<{}, FALSE, FALSE>>}

\* __init__ with the defaults: no graph and no examples in memory.
Init ==
    /\ \E c \in Configs :
           /\ siteIds = c[1]
           /\ intent_graph_path = c[2]
           /\ examples_path = c[3]
    /\ intent_graph = <<>>
    /\ examples = <<>>
    /\ graph_file = Missing
    /\ examples_file = Missing
    /\ published = <<>>
    /\ last = Call("init", NoMessage, FALSE, "", FALSE, FALSE, <<<<>>, <<>>>>)
    /\ load_failed = FALSE

\* on_message, msg.topic == NluQuery.topic(), json.loads raises: the outer
\* except logs it.
QueryBadJson(msg) ==
    /\ msg.payload = "bad_json"
    /\ published' = <<>>
    /\ last' = Call("query", msg, FALSE, "JSONDecodeError", TRUE, FALSE,
                    <<intent_graph, examples>>)
    /\ UNCHANGED <<config, intent_graph, examples, graph_file, examples_file, load_failed>>

\* on_message, query topic: the site check fails and the call returns.
QueryOtherSite(msg) ==
    /\ msg.payload # "bad_json"
    /\ ~_check_siteId(msg)
    /\ published' = <<>>
    /\ last' = Call("query", msg, FALSE, "", FALSE, FALSE,
                    <<intent_graph, examples>>)
    /\ UNCHANGED <<config, intent_graph, examples, graph_file, examples_file, load_failed>>

\* on_message, query topic: NluQuery(**json_payload) raises; the handler reads
\* query.siteId with query unbound, and the outer except logs that.
QueryBadFields(msg) ==
    /\ msg.payload = "bad_fields"
    /\ _check_siteId(msg)
    /\ published' = <<>>
    /\ last' = Call("query", msg, TRUE, "TypeError", TRUE, FALSE,
                    <<intent_graph, examples>>)
    /\ UNCHANGED <<config, intent_graph, examples, graph_file, examples_file, load_failed>>

\* The end of the query branch: what handle_query left, and the NluError
\* published when it raised.
QueryHandled(msg, query, r) ==
    /\ intent_graph' = r.intent_graph
    /\ examples' = r.examples
    /\ published' = IF r.raised # ""
                    THEN <<NluError(query.siteId, msg.sessionId, r.raised, "")>>
                    ELSE r.published
    /\ last' = Call("query", msg, TRUE, r.raised, FALSE, r.called_recognize,
                    <<intent_graph, examples>>)
    /\ load_failed' = (load_failed \/ ~r.called_recognize)

\* on_message, query topic: handle_query runs; an exception it raises is
\* published as an NluError.
Query(msg) ==
    /\ msg.payload = "ok"
    /\ _check_siteId(msg)
    /\ QueryHandled(msg, NluQuery(msg),
                    handle_query(NluQuery(msg), intent_graph, examples, intent_graph_path,
                                 examples_path, graph_file, examples_file))
    /\ UNCHANGED <<config, graph_file, examples_file>>

\* on_message, train topic: the topic's siteId is not one of siteIds.
TrainOtherSite(msg) ==
    /\ siteIds # {}
    /\ msg.topicSite \notin siteIds
    /\ published' = <<>>
    /\ last' = Call("train", msg, FALSE, "", FALSE, FALSE,
                    <<intent_graph, examples>>)
    /\ UNCHANGED <<config, intent_graph, examples, graph_file, examples_file, load_failed>>

\* on_message, train topic: json.loads or NluTrain(**json_payload) raises.
TrainBadPayload(msg) ==
    /\ siteIds = {} \/ msg.topicSite \in siteIds
    /\ msg.payload # "ok"
    /\ published' = <<>>
    /\ last' = Call("train", msg, TRUE,
                    IF msg.payload = "bad_json" THEN "JSONDecodeError" ELSE "TypeError",
                    TRUE, FALSE,
                    <<intent_graph, examples>>)
    /\ UNCHANGED <<config, intent_graph, examples, graph_file, examples_file, load_failed>>

\* The end of the train branch: what handle_train left, its result published.
TrainHandled(msg, h) ==
    /\ intent_graph' = h.intent_graph
    /\ examples' = h.examples
    /\ graph_file' = h.graph_file
    /\ examples_file' = h.examples_file
    /\ published' = <<h.result>>
    /\ last' = Call("train", msg, TRUE, h.raised, FALSE, FALSE,
                    <<intent_graph, examples>>)
    /\ load_failed' = load_failed

\* on_message, train topic: handle_train runs and its result is published.
Train(msg, fail) ==
    /\ siteIds = {} \/ msg.topicSite \in siteIds
    /\ msg.payload = "ok"
    /\ fail = "none" \/ msg.sentences \in Interrupted
    /\ TrainHandled(msg, handle_train(msg, intent_graph, examples, intent_graph_path,
                                      examples_path, graph_file, examples_file, fail))
    /\ UNCHANGED config

\* The server process is started again over the same files: __init__.
Restart ==
    /\ intent_graph' = <<>>
    /\ examples' = <<>>
    /\ published' = <<>>
    /\ last' = Call("init", NoMessage, FALSE, "", FALSE, FALSE, <<<<>>, <<>>>>)
    /\ load_failed' = FALSE
    /\ UNCHANGED <<config, graph_file, examples_file>>

\* Another process writes the two files of one training of a non-empty
\* grammar at the configured paths; the server reads them only in a lazy load.
Install(k) ==
    /\ intent_graph_path
    /\ examples_path
    /\ graph_file' = JsonFile(intents_to_graph(Grammar(k)))
    /\ examples_file' = JsonFile(TrainExamples(intents_to_graph(Grammar(k))))
    /\ published' = <<>>
    /\ last' = Call("install", NoMessage, FALSE, "", FALSE, FALSE,
                    <<intent_graph, examples>>)
    /\ UNCHANGED <<config, intent_graph, examples, load_failed>>

on_message ==
    \/ \E msg \in QueryMessages :
          \/ QueryBadJson(msg)
          \/ QueryOtherSite(msg)
          \/ QueryBadFields(msg)
          \/ Query(msg)
    \/ \E msg \in TrainMessages :
          \/ TrainOtherSite(msg)
          \/ TrainBadPayload(msg)
          \/ \E fail \in Failures : Train(msg, fail)

Next == on_message \/ Restart \/ \E k \in InstalledGrammars : Install(k)

Spec == Init /\ [][Next]_vars

\* ------------------------------------------------------------------------
\* Properties
\* ------------------------------------------------------------------------

\* The pair (self.intent_graph, self.examples).
Pair == <<intent_graph, examples>>

\* The pairs train returns, one per grammar.
TrainedPair(k) ==
    <<Some(intents_to_graph(Grammar(k))), Some(TrainExamples(intents_to_graph(Grammar(k))))>>

TrainedPairs == {TrainedPair(k) : k \in GrammarIds}

\* The last call was a well-formed query that passed the site check.
Answered == last.kind = "query" /\ last.msg.payload = "ok" /\ last.site_ok

\* The last call was a train request that reached handle_train.
Trained == last.kind = "train" /\ last.msg.payload = "ok" /\ last.site_ok

\* The last call published exactly one message, of the given type.
PublishedOne(type) == Len(published) = 1 /\ published[1].type = type

\* The input text of the last query after number expansion.
InputText == replace_numbers(last.msg.input)

RECURSIVE EntriesOf(_, _)
\* The (intent, text) entries of one intent, in insertion order.
EntriesOf(intent, items) ==
    IF items = <<>> THEN <<>>
    ELSE <<[intent |-> intent, text |-> Head(items).text]>> \o EntriesOf(intent, Tail(items))

RECURSIVE Entries(_, _)
\* The entries of the intents of an index that pass a filter: intents in
\* index order, texts in order within an intent.
Entries(index, intentFilter) ==
    IF index = <<>> THEN <<>>
    ELSE (IF intent_filter(intentFilter, Head(index).intent)
          THEN EntriesOf(Head(index).intent, Head(index).paths)
          ELSE <<>>)
         \o Entries(Tail(index), intentFilter)

\* The score of an entry against the input text.
EntryScore(entry) == WRatio(full_process(InputText), full_process(entry.text))

\* C1: whenever train raises in a handle_train call (while parsing, or while
\* writing either file, or while generating the examples), the pair
\* (self.intent_graph, self.examples) is what it was before the call and the
\* call's result is one NluError; when train returns, the pair is what train
\* returned and the result is one NluTrainSuccess, so the pair changes only
\* then.
C1_FailedTrainKeepsPair ==
    Trained =>
        IF last.raised # ""
        THEN Pair = last.before /\ PublishedOne("NluError")
        ELSE Pair = TrainedPair(last.msg.sentences) /\ PublishedOne("NluTrainSuccess")

\* A train call that raised while writing a file, with a trained pair in
\* memory.
C1_Witness ==
    /\ Trained
    /\ last.raised = "OSError"
    /\ HaveBoth(intent_graph, examples)
    /\ Pair = last.before
    /\ PublishedOne("NluError")

\* C2: every recognition runs with a graph and an example index of the same
\* training cycle: whenever handle_query called recognize, the pair it used
\* is the pair one train call returned, never the graph of one training with
\* the index of another.
C2_RecognizeWithOneCycle ==
    (Answered /\ last.called_recognize) => Pair \in TrainedPairs

\* C3: when a graph and a non-empty index are loaded and no intent of the
\* index passes the query's filter, the query publishes one
\* NluIntentNotRecognized and raises nothing.
C3_EmptyCandidatesNotRecognized ==
    (/\ Answered
     /\ HaveBoth(intent_graph, examples)
     /\ Entries(Val(examples), last.msg.intentFilter) = <<>>)
        => last.raised = "" /\ PublishedOne("NluIntentNotRecognized")

\* C4: every well-formed query that passes the site check ends in one
\* NluIntent or one NluIntentNotRecognized: handle_query raises nothing and
\* no NluError is published for a query.
C4_QueryNeverRaises ==
    Answered =>
        /\ last.raised = ""
        /\ PublishedOne("NluIntent") \/ PublishedOne("NluIntentNotRecognized")

\* C5: every slot of a published NluIntent has a range within the
\* number-expanded input text: 0 <= start <= end <= len(raw_text).
C5_SlotRangeWithinInput ==
    (Answered /\ PublishedOne("NluIntent")) =>
        \A i \in 1..Len(published[1].slots) :
            /\ 0 <= published[1].slots[i].start
            /\ published[1].slots[i].start <= published[1].slots[i].end
            /\ published[1].slots[i].end <= TextLen(InputText)

\* C6: with the graph and the index of one training, the intent of a
\* published NluIntent is the intent of the first entry, in insertion order
\* of the index, whose score is the maximum over the entries that pass the
\* filter.
C6_FirstInsertedWins ==
    (Answered /\ PublishedOne("NluIntent") /\ Pair \in TrainedPairs) =>
        LET entries == Entries(Val(examples), last.msg.intentFilter)
        IN  \E i \in 1..Len(entries) :
                /\ \A j \in 1..Len(entries) : EntryScore(entries[j]) <= EntryScore(entries[i])
                /\ \A j \in 1..(i - 1) : EntryScore(entries[j]) < EntryScore(entries[i])
                /\ published[1].intentName = entries[i].intent

\* C7: when a query carries a non-empty intentFilter, the intent name of a
\* published NluIntent is a member of the filter.
C7_IntentWithinFilter ==
    (/\ Answered
     /\ PublishedOne("NluIntent")
     /\ ~IsNone(last.msg.intentFilter)
     /\ Val(last.msg.intentFilter) # {})
        => published[1].intentName \in Val(last.msg.intentFilter)

\* Before the last call the graph or the examples were falsy in memory, and
\* each falsy one had nothing to load: its path unset or its file missing
\* (a query changes neither the paths nor the files).
C8_NothingLoadable ==
    /\ ~GraphTruthy(last.before[1]) \/ ~ExamplesTruthy(last.before[2])
    /\ GraphTruthy(last.before[1]) \/ ~intent_graph_path \/ ~is_file(graph_file)
    /\ ExamplesTruthy(last.before[2]) \/ ~examples_path \/ ~is_file(examples_file)

\* C8: a query handled with no graph or no examples in memory and nothing to
\* load publishes exactly one NluIntentNotRecognized with the query's input,
\* id, siteId and sessionId, publishes no NluIntent, and does not call
\* recognize.
C8_NoDataNotRecognized ==
    (Answered /\ C8_NothingLoadable) =>
        /\ published = <<[type |-> "NluIntentNotRecognized",
                          input |-> last.msg.input,
                          id |-> last.msg.id,
                          siteId |-> PayloadSite(last.msg),
                          sessionId |-> last.msg.sessionId]>>
        /\ ~last.called_recognize
        /\ last.raised = ""

\* A query handled with a graph in memory, examples that are set and empty,
\* and an examples file that is missing or no path to it.
C8_Witness ==
    /\ Answered
    /\ C8_NothingLoadable
    /\ GraphTruthy(last.before[1])
    /\ last.before[2] = Some(<<>>)
    /\ PublishedOne("NluIntentNotRecognized")

\* C9: a query whose lazy load finds the graph file or the examples file
\* missing or corrupt ends in one NluIntentNotRecognized and raises nothing.
C9_LoadFailureNotRecognized ==
    (/\ Answered
     /\ \/ ~GraphTruthy(last.before[1]) /\ intent_graph_path /\ graph_file.state # "json"
        \/ ~ExamplesTruthy(last.before[2]) /\ examples_path /\ examples_file.state # "json")
        => last.raised = "" /\ PublishedOne("NluIntentNotRecognized")

\* C10: with the graph and the index of one training, the confidence of a
\* published NluIntent is best_score / 100 within [0, 1]; and when exactly
\* one entry that passes the filter has the input text as its text, the
\* intent is that entry's and the confidence is 1.0.
C10_ExactTextFullConfidence ==
    (Answered /\ PublishedOne("NluIntent") /\ Pair \in TrainedPairs) =>
        LET entries == Entries(Val(examples), last.msg.intentFilter)
            exact == {i \in 1..Len(entries) : entries[i].text = InputText}
        IN  /\ published[1].confidenceScore.den = 100
            /\ published[1].confidenceScore.num \in 0..100
            /\ \A i \in exact :
                   exact = {i} =>
                       /\ published[1].intentName = entries[i].intent
                       /\ published[1].confidenceScore.num = 100

\* C11: no score threshold gates the outcome: whenever a graph and an index
\* are loaded and at least one entry passes the filter, the query raises
\* nothing and one NluIntent is published, for every input text.
C11_BestMatchAlwaysPublished ==
    (/\ Answered
     /\ HaveBoth(intent_graph, examples)
     /\ Entries(Val(examples), last.msg.intentFilter) # <<>>)
        => last.raised = "" /\ PublishedOne("NluIntent")

\* The path the index holds for a text of an intent.
IndexPath(index, intent, text) ==
    LET paths == index[CHOOSE i \in 1..Len(index) : index[i].intent = intent].paths
    IN  paths[CHOOSE j \in 1..Len(paths) : paths[j].text = text].path

\* Tuple j is the last generated tuple with the intent and the text of tuple i.
LastSame(tuples, i, j) ==
    /\ tuples[j].intent_name = tuples[i].intent_name
    /\ tuples[j].words = tuples[i].words
    /\ \A k \in (j + 1)..Len(tuples) :
           ~(tuples[k].intent_name = tuples[i].intent_name /\ tuples[k].words = tuples[i].words)

\* The index holds every intent once and every text of an intent once, each
\* entry is the text of a generated tuple of its intent, and each tuple's
\* text is filed under the tuple's intent with the path of the last tuple
\* generated with that intent and that text.
FoldedFrom(index, tuples) ==
    /\ \A i, j \in 1..Len(index) : index[i].intent = index[j].intent => i = j
    /\ \A i \in 1..Len(index) :
           /\ \A a, b \in 1..Len(index[i].paths) :
                  index[i].paths[a].text = index[i].paths[b].text => a = b
           /\ \A a \in 1..Len(index[i].paths) :
                  \E t \in 1..Len(tuples) :
                      /\ tuples[t].intent_name = index[i].intent
                      /\ tuples[t].words = index[i].paths[a].text
    /\ \A t \in 1..Len(tuples) :
           \E m \in t..Len(tuples) :
               /\ LastSame(tuples, t, m)
               /\ IndexPath(index, tuples[t].intent_name, tuples[t].words) = tuples[m].path

\* C12: after a train call that returned, the index in memory is the fold of
\* the tuples generated from the graph in memory: one entry per text within
\* an intent, the path of the last tuple generated for that intent and text,
\* and no entry taken from a tuple of another intent.
C12_LastGeneratedPathWins ==
    (Trained /\ last.raised = "") =>
        FoldedFrom(Val(examples), generate_examples(Val(intent_graph)))

\* A train call that returned an index in which intent B holds the text
\* "on" once, with the path of the later of the two sentences of B that
\* render it, while intent A keeps its own path for the same text.
C12_Witness ==
    /\ Trained
    /\ last.raised = ""
    /\ last.msg.sentences = 3
    /\ IndexPath(Val(examples), "B", <<"on">>) = <<0, 8, 9, 10>>
    /\ IndexPath(Val(examples), "A", <<"on">>) = <<0, 1, 2, 10>>

\* C13: a query handled with a non-empty graph and a non-empty index in
\* memory leaves both as they were and calls recognize with them, whatever
\* the files hold; and an attribute that is set before a query is never
\* replaced by the query.
C13_LoadedPairIsKept ==
    Answered =>
        /\ HaveBoth(last.before[1], last.before[2]) =>
               Pair = last.before /\ last.called_recognize
        /\ GraphTruthy(last.before[1]) => intent_graph = last.before[1]
        /\ ExamplesTruthy(last.before[2]) => examples = last.before[2]

\* A query answered from a pair in memory while the graph file holds another
\* graph and the examples file is corrupt.
C13_Witness ==
    /\ Answered
    /\ HaveBoth(last.before[1], last.before[2])
    /\ graph_file.state = "json"
    /\ graph_file.data # intent_graph
    /\ examples_file.state = "corrupt"
    /\ PublishedOne("NluIntent")

\* The last query could load nothing that was not in memory: the graph and
\* the examples were not both set, and each of them was set already, or has
\* no path, or has no file that parses.
C14_NothingLoaded ==
    /\ ~HaveBoth(last.before[1], last.before[2])
    /\ \/ GraphTruthy(last.before[1])
       \/ ~intent_graph_path
       \/ graph_file.state # "json"
    /\ \/ ExamplesTruthy(last.before[2])
       \/ ~examples_path
       \/ examples_file.state # "json"

\* An attribute is available to a query: set in memory, or readable from a
\* file that parses to a non-empty value.
GraphAvailable(graph) ==
    \/ GraphTruthy(graph)
    \/ intent_graph_path /\ graph_file.state = "json" /\ GraphTruthy(graph_file.data)

ExamplesAvailable(index) ==
    \/ ExamplesTruthy(index)
    \/ examples_path /\ examples_file.state = "json" /\ ExamplesTruthy(examples_file.data)

C15_TrainResultCorrelated ==
    Trained =>
        /\ Len(published) = 1
        /\ last.raised = "" => published[1] = NluTrainSuccess(last.msg.id)
        /\ last.raised # "" =>
               /\ published[1].type = "NluError"
               /\ published[1].context = last.msg.id
               /\ published[1].error = last.raised

\* A train request whose enumeration raised is answered by one NluError
\* with the request's id as context.
C15_Witness ==
    /\ Trained
    /\ last.raised = "Exception"
    /\ PublishedOne("NluError")
    /\ published[1].context = "t1"

\* C16: whenever both files hold JSON they were written by one training,
\* and a server that starts with nothing in memory and loads both files in
\* a query recognizes with the pair of one training.
C16_FilesOfOneCycle ==
    /\ (graph_file.state = "json" /\ examples_file.state = "json") =>
           <<graph_file.data, examples_file.data>> \in TrainedPairs
    /\ (Answered /\ last.before = <<<<>>, <<>>>> /\ last.called_recognize) =>
           Pair \in TrainedPairs

\* C17: every message on the query topic that passes the site check is
\* answered by exactly one published message.
C17_OneResponsePerQuery ==
    (last.kind = "query" /\ last.site_ok) => Len(published) = 1

\* C18: with a non-empty siteIds list, a query whose payload siteId is not
\* in the list and a train message whose topic siteId is not in the list
\* publish nothing and leave the pair in memory as it was; with an empty
\* list every well-formed query and train request is handled and answered.
C18_OtherSitesIgnored ==
    /\ (/\ siteIds # {}
        /\ last.kind = "query"
        /\ last.msg.payload # "bad_json"
        /\ PayloadSite(last.msg) \notin siteIds)
           => ~last.site_ok /\ published = <<>> /\ Pair = last.before
    /\ (/\ siteIds # {}
        /\ last.kind = "train"
        /\ last.msg.topicSite \notin siteIds)
           => ~last.site_ok /\ published = <<>> /\ Pair = last.before
    /\ (/\ siteIds = {}
        /\ last.kind \in {"query", "train"}
        /\ last.msg.payload = "ok")
           => last.site_ok /\ Len(published) = 1

\* A query from another site reaches a server that has a trained pair in
\* memory and is ignored.
C18_Witness ==
    /\ siteIds # {}
    /\ last.kind = "query"
    /\ PayloadSite(last.msg) = "other"
    /\ HaveBoth(intent_graph, examples)
    /\ Pair = last.before
    /\ published = <<>>

\* What the last query did is what handle_query did in r.
SameOutcome(r) ==
    /\ Pair = <<r.intent_graph, r.examples>>
    /\ last.raised = r.raised
    /\ last.called_recognize = r.called_recognize
    /\ r.raised = "" => published = r.published

\* C19: a query whose intentFilter is the empty list does what the same
\* query without intentFilter does from the same memory and files, and every
\* entry of the loaded index is a candidate for it.
C19_EmptyFilterIsNoFilter ==
    (Answered /\ last.msg.intentFilter = <<{}>>) =>
        /\ SameOutcome(handle_query(NluQuery([last.msg EXCEPT !.intentFilter = <<>>]),
                                    last.before[1], last.before[2],
                                    intent_graph_path, examples_path,
                                    graph_file, examples_file))
        /\ ExamplesTruthy(examples) =>
               /\ Entries(Val(examples), <<{}>>) = Entries(Val(examples), <<>>)
               /\ \A i \in 1..Len(Val(examples)) :
                      \E j \in 1..Len(Entries(Val(examples), <<{}>>)) :
                          Entries(Val(examples), <<{}>>)[j].intent = Val(examples)[i].intent

\* A query with an empty intentFilter recognized as the second intent of a
\* trained grammar.
C19_Witness ==
    /\ Answered
    /\ last.msg.intentFilter = <<{}>>
    /\ Pair \in TrainedPairs
    /\ PublishedOne("NluIntent")
    /\ published[1].intentName = "B"
    /\ Val(examples)[1].intent = "A"

====
